---- MODULE Spec2Model ----
(***************************************************************************)
(* Codebase-Refactor-Detection: the similarity engine of src/api.          *)
(*                                                                         *)
(*   main.py            read_config, read_codebase, lsh,                   *)
(*                      find_similiar_regions, write results               *)
(*   services/LSH       shingles, MinHash signatures, banding, the         *)
(*                      candidate graph (lsh.py, lsh_helpers.py)           *)
(*   services/Similiarity  region expansion and the ranking heap           *)
(*                                                                         *)
(* A line of code is a sequence of characters (small naturals).  A         *)
(* fingerprint id f"{file_key}_{line_idx}" is the pair <<file_key,         *)
(* line_idx>>.  Python's None is the empty tuple.  A similarity            *)
(* matches / len is the pair <<matches, len>>, and a threshold of the      *)
(* configuration is a pair <<n, ThresholdDen>>; they are compared by       *)
(* cross-multiplication.  The program signs lines with 100 hash functions  *)
(* in 10 bands; the model keeps the code and scales both numbers down.     *)
(***************************************************************************)
EXTENDS Integers, Sequences, FiniteSets, TLC

\* ---------------------------------------------------------------- bounds
\* longest normalized file, in code lines
MaxLines == 3
\* thresholds of the configuration are n / ThresholdDen, n in 0..ThresholdDen
ThresholdDen == 1
\* largest region_length of the configuration
MaxRegionLength == 2
\* lsh: num_hash_functions (100 in the program)
NumHash == 2
\* lsh: the bands of create_band_buckets(signatures, 10) (10 in the program)
NumBands == 2

\* ---------------------------------------------------------------- program constants
\* generate_shingle_set(code, k = 5)
ShingleK == 5

None == <<>>

\* the paths of the two files of the codebase, in the order read_dir found them
FileKeys == {1, 2}

\* the normalized lines that occur in the codebase: P and Q are long enough
\* to be signed and share a shingle, S is too short to have one
LineP == <<1, 1, 1, 1, 1, 1>>
LineQ == <<1, 1, 1, 1, 1, 2>>
LineS == <<1, 2>>
Lines == {LineP, LineQ, LineS}

Thresholds == {<<n, ThresholdDen>> : n \in 0..ThresholdDen}

\* ---------------------------------------------------------------- helpers
Range(s) == {s[i] : i \in 1..Len(s)}

Max(a, b) == IF a >= b THEN a ELSE b

\* sequences over S of length lo..hi
SeqsOf(S, lo, hi) == UNION {[1..n -> S] : n \in lo..hi}

\* lexicographic order of equally long tuples of integers
RECURSIVE TupleLess(_, _)
TupleLess(a, b) ==
    IF a = <<>> \/ b = <<>> THEN a = <<>> /\ b # <<>>
    ELSE IF a[1] # b[1] THEN a[1] < b[1]
    ELSE TupleLess(Tail(a), Tail(b))

\* a set of tuples as the sequence in ascending order
SortSet(S) ==
    [i \in 1..Cardinality(S) |->
        CHOOSE x \in S : Cardinality({y \in S : TupleLess(y, x)}) = i - 1]

\* permutations of 0..n-1 as sequences: p[i + 1] is the image of i
Perms(n) == {p \in [1..n -> 0..(n - 1)] : \A i, j \in 1..n : p[i] = p[j] => i = j}

\* ---------------------------------------------------------------- normalizer.py
\* a raw line is a sequence of characters; str.lstrip and str.strip remove
\* these
Whitespace == {" ", "\n"}

RECURSIVE lstrip(_)
lstrip(s) == IF s # <<>> /\ Head(s) \in Whitespace THEN lstrip(Tail(s)) ELSE s

RECURSIVE rstrip(_)
rstrip(s) ==
    IF s # <<>> /\ s[Len(s)] \in Whitespace THEN rstrip(SubSeq(s, 1, Len(s) - 1)) ELSE s

strip(s) == rstrip(lstrip(s))

startswith(s, prefix) == Len(s) >= Len(prefix) /\ SubSeq(s, 1, Len(prefix)) = prefix

TripleDoubleQuote == <<"\"", "\"", "\"">>
TripleSingleQuote == <<"'", "'", "'">>

is_import(code) ==
    \/ startswith(lstrip(code), <<"f", "r", "o", "m">>)
    \/ startswith(lstrip(code), <<"i", "m", "p", "o", "r", "t">>)

is_comment(code) ==
    startswith(lstrip(code), <<"#">>) \/ startswith(lstrip(code), TripleDoubleQuote)

is_multiline_string(code) == startswith(lstrip(code), <<"'">>)

is_decorator(code) == startswith(lstrip(code), <<"@">>)

is_empty_line(code) == Len(strip(code)) = 0

\* the number recorded for a kept line is its position among the kept lines
RECURSIVE NormalizeLinesNumberKept(_, _, _, _, _)
NormalizeLinesNumberKept(lines, original_line_number, in_multiline_string, code, line_mapping) ==
    IF original_line_number > Len(lines) THEN <<code, line_mapping>>
    ELSE
      LET line == lines[original_line_number]
          handled == ~is_import(line) /\ ~is_comment(line) /\ ~is_decorator(line)
                        /\ ~is_empty_line(line)
          in_string == IF handled /\ is_multiline_string(line)
                       THEN ~in_multiline_string ELSE in_multiline_string
          kept == handled /\ ~in_string /\ ~is_multiline_string(line)
      IN  NormalizeLinesNumberKept(lines, original_line_number + 1, in_string,
                         IF kept THEN Append(code, lstrip(line)) ELSE code,
                         IF kept THEN Append(line_mapping, Len(code) + 1) ELSE line_mapping)

\* the loop of lines 12-25 from line original_line_number on (1-based)
RECURSIVE NormalizeLines(_, _, _, _, _)
NormalizeLines(lines, original_line_number, in_multiline_string, code, line_mapping) ==
    IF original_line_number > Len(lines) THEN <<code, line_mapping>>
    ELSE
      LET line == lines[original_line_number]
          handled == ~is_import(line) /\ ~is_comment(line) /\ ~is_decorator(line)
                        /\ ~is_empty_line(line)
          in_string == IF handled /\ is_multiline_string(line)
                       THEN ~in_multiline_string ELSE in_multiline_string
          kept == handled /\ ~in_string /\ ~is_multiline_string(line)
      IN  NormalizeLines(lines, original_line_number + 1, in_string,
                         IF kept THEN Append(code, lstrip(line)) ELSE code,
                         IF kept THEN Append(line_mapping, original_line_number)
                                 ELSE line_mapping)

\* a file is readable (opens and decodes as UTF-8) or not; [None, None] is
\* returned for one that is not
normalize_file_path(file) ==
    IF ~file.readable THEN <<None, None>>
    ELSE NormalizeLines(file.lines, 1, FALSE, <<>>, <<>>)

\* ---------------------------------------------------------------- lsh_helpers.py
\* the None of generate_shingle_set is the empty set: a set the function
\* returns for len(code) > k has an element
NoShingles == {}

\* the range of the loop one short: the last shingle is left out
generate_shingle_set_short(code, k) ==
    IF Len(code) > k
    THEN {SubSeq(code, idx + 1, idx + k) : idx \in 0..(Len(code) - k - 1)}
    ELSE NoShingles

generate_shingle_set(code, k) ==
    IF Len(code) > k
    THEN {SubSeq(code, idx + 1, idx + k) : idx \in 0..(Len(code) - k)}
    ELSE NoShingles

\* permutations of 1..shingle_len instead of 0..shingle_len-1
generate_hash_functions_one_based(n, shingle_len) ==
    [1..n -> {[i \in 1..shingle_len |-> p[i] + 1] : p \in Perms(shingle_len)}]

\* every list of n shuffled permutations of 0..shingle_len-1
generate_hash_functions(n, shingle_len) == [1..n -> Perms(shingle_len)]

Min(S) == CHOOSE m \in S : \A x \in S : m <= x

\* the hash of the shingle with the smallest index, not the smallest hash
create_signature_first(shingle_set, shingle_index_map, hash_functions) ==
    LET shingle_indices == {shingle_index_map[s] : s \in shingle_set \cap DOMAIN shingle_index_map}
    IN  IF shingle_indices = {}
        THEN [i \in 1..Len(hash_functions) |-> Len(hash_functions[1])]
        ELSE [i \in 1..Len(hash_functions) |-> hash_functions[i][Min(shingle_indices) + 1]]

create_signature(shingle_set, shingle_index_map, hash_functions) ==
    LET shingle_indices == {shingle_index_map[s] : s \in shingle_set \cap DOMAIN shingle_index_map}
    IN  IF shingle_indices = {}
        THEN [i \in 1..Len(hash_functions) |-> Len(hash_functions[1])]
        ELSE [i \in 1..Len(hash_functions) |->
                 Min({hash_functions[i][idx + 1] : idx \in shingle_indices})]

split_vector(signature, b) ==
    LET sub_size == Len(signature) \div b
    IN  [i \in 1..b |-> SubSeq(signature, (i - 1) * sub_size + 1, i * sub_size)]

\* the length check left out: the pairs zip yields are counted over len(sig1)
calculate_jaccard_similarity_unchecked(sig1, sig2) ==
    <<Cardinality({i \in 1..Len(sig1) : i <= Len(sig2) /\ sig1[i] = sig2[i]}), Len(sig1)>>

calculate_jaccard_similarity(sig1, sig2) ==
    IF Len(sig1) # Len(sig2) THEN <<0, 1>>
    ELSE <<Cardinality({i \in 1..Len(sig1) : sig1[i] = sig2[i]}), Len(sig1)>>

\* a < b for the fractions a, b (positive denominators)
SimLess(a, b) == a[1] * b[2] < b[1] * a[2]

\* ---------------------------------------------------------------- lsh.py
\* steps 1-2: the global shingle set as a list, and each shingle's index
ShingleUnion(fm) ==
    UNION {UNION {generate_shingle_set(fm[f].code[i], ShingleK) :
                     i \in {j \in 1..Len(fm[f].code) :
                               generate_shingle_set(fm[f].code[j], ShingleK) # NoShingles}}
           : f \in DOMAIN fm}

ShingleIndexMap(fm) ==
    LET shingle_list == SortSet(ShingleUnion(fm))
    IN  [s \in ShingleUnion(fm) |-> (CHOOSE idx \in 1..Len(shingle_list) : shingle_list[idx] = s) - 1]

\* every line of f gets a fingerprint id, the lines without shingles too
SignatureKeysByFileAll(fm, f) == [i \in 1..Len(fm[f].code) |-> <<f, i - 1>>]

\* signature_keys_by_file[f]: the fingerprint ids of f in line order
SignatureKeysByFile(fm, f) ==
    SelectSeq([i \in 1..Len(fm[f].code) |-> <<f, i - 1>>],
              LAMBDA id : generate_shingle_set(fm[f].code[id[2] + 1], ShingleK) # NoShingles)

\* step 4, first pass: the signature store, links still None
BuildSignatures(fm, shingle_index_map, hash_functions) ==
    LET ids == UNION {Range(SignatureKeysByFile(fm, f)) : f \in DOMAIN fm}
    IN  [id \in ids |->
           [signature |-> create_signature(
                              generate_shingle_set(fm[id[1]].code[id[2] + 1], ShingleK),
                              shingle_index_map, hash_functions),
            file |-> id[1],
            line_number |-> id[2],
            original_line |-> fm[id[1]].code[id[2] + 1],
            original_line_number |-> fm[id[1]].line_mapping[id[2] + 1],
            next_signature |-> None,
            prev_signature |-> None]]

\* links computed from the line index, as if every line had a signature
LinkSignaturesByLineIdx(sigs, fm) ==
    [id \in DOMAIN sigs |->
       [sigs[id] EXCEPT
          !.prev_signature = IF id[2] > 0 THEN <<id[1], id[2] - 1>> ELSE None,
          !.next_signature = IF id[2] < Len(fm[id[1]].code) - 1
                             THEN <<id[1], id[2] + 1>> ELSE None]]

\* step 4, second pass: link the consecutive signed lines of each file
LinkSignatures(sigs, fm) ==
    [id \in DOMAIN sigs |->
       LET line_data == SignatureKeysByFile(fm, id[1])
           i == CHOOSE n \in 1..Len(line_data) : line_data[n] = id
       IN  [sigs[id] EXCEPT
              !.prev_signature = IF i > 1 THEN line_data[i - 1] ELSE None,
              !.next_signature = IF i < Len(line_data) THEN line_data[i + 1] ELSE None]]

\* dict order of the signature store: files in order, lines in order
SignatureOrder(sigs) == SortSet(DOMAIN sigs)

\* split_vector: the assert of line 43 fails for a signature of the store
create_band_buckets_asserts(sigs, num_bands) ==
    \E id \in DOMAIN sigs : Len(sigs[id].signature) % num_bands # 0

\* step 5: band_buckets[band_idx][band_key] is the list of ids of the bucket
create_band_buckets(sigs, num_bands) ==
    LET order == SignatureOrder(sigs)
        band(id, b) == split_vector(sigs[id].signature, num_bands)[b]
    IN  [b \in {x \in 1..num_bands : DOMAIN sigs # {}} |->
           [band_key \in {band(id, b) : id \in DOMAIN sigs} |->
              SelectSeq(order, LAMBDA id : band(id, b) = band_key)]]

\* step 6: both orderings of every two ids of a bucket
Candidates(banding) ==
    UNION {UNION {{<<banding[b][key][i], banding[b][key][j]>> : i \in 1..Len(banding[b][key]),
                                                                 j \in 1..Len(banding[b][key])}
                     \ {<<id, id>> : id \in Range(banding[b][key])}
                  : key \in DOMAIN banding[b]}
           : b \in DOMAIN banding}

\* iteration order of the candidate set (a Python set of tuples): the model
\* enumerates the pairs in ascending order, first by id1 and then by id2
CandidateOrder(cands, sigs) ==
    LET ids == SignatureOrder(sigs)
        n == Len(ids)
        all == [k \in 1..(n * n) |-> <<ids[((k - 1) \div n) + 1], ids[((k - 1) % n) + 1]>>]
    IN  SelectSeq(all, LAMBDA c : c \in cands)

AdjHasKey(adj, id) == \E n \in 1..Len(adj) : adj[n].key = id

AdjValues(adj, id) == adj[CHOOSE n \in 1..Len(adj) : adj[n].key = id].values

\* similiarity_adjacency_list[id] = [] when id is not yet a key
AdjEnsure(adj, id) ==
    IF AdjHasKey(adj, id) THEN adj ELSE Append(adj, [key |-> id, values |-> <<>>])

\* similiarity_adjacency_list[id] = values
AdjSet(adj, id, values) ==
    LET n == CHOOSE m \in 1..Len(adj) : adj[m].key = id
    IN  SubSeq(adj, 1, n - 1) \o <<[key |-> id, values |-> values]>> \o SubSeq(adj, n + 1, Len(adj))

\* similiarity_adjacency_list[id].append(other)
AdjAppend(adj, id, other) == AdjSet(adj, id, Append(AdjValues(adj, id), other))

\* the list of id1 is created anew although id1 may be a key already
AddCandidateReset(adj, sigs, id1, id2, candidate_threshold) ==
    LET similarity == calculate_jaccard_similarity(sigs[id1].signature, sigs[id2].signature)
    IN  IF SimLess(candidate_threshold, similarity)
        THEN AdjAppend(AdjAppend(AdjSet(AdjEnsure(AdjEnsure(adj, id1), id2), id1, <<>>),
                                 id1, id2), id2, id1)
        ELSE adj

\* the comparison turned round: an edge for a similarity below the threshold
AddCandidateBelow(adj, sigs, id1, id2, candidate_threshold) ==
    LET similarity == calculate_jaccard_similarity(sigs[id1].signature, sigs[id2].signature)
    IN  IF SimLess(similarity, candidate_threshold)
        THEN AdjAppend(AdjAppend(AdjEnsure(AdjEnsure(adj, id1), id2), id1, id2), id2, id1)
        ELSE adj

\* step 7, one iteration of the loop over the candidates
AddCandidate(adj, sigs, id1, id2, candidate_threshold) ==
    LET similarity == calculate_jaccard_similarity(sigs[id1].signature, sigs[id2].signature)
    IN  IF SimLess(candidate_threshold, similarity)
        THEN AdjAppend(AdjAppend(AdjEnsure(AdjEnsure(adj, id1), id2), id1, id2), id2, id1)
        ELSE adj

\* step 7: the loop over the candidates from order[n] on, adj being the map
\* built so far (Len(adj) has TLC evaluate the map of one iteration before it
\* enters the next)
RECURSIVE BuildAdjacency(_, _, _, _, _)
BuildAdjacency(adj, order, n, sigs, candidate_threshold) ==
    IF Len(adj) >= 0 /\ n > Len(order) THEN adj
    ELSE BuildAdjacency(AddCandidate(adj, sigs, order[n][1], order[n][2], candidate_threshold),
                        order, n + 1, sigs, candidate_threshold)

\* ---------------------------------------------------------------- similiar_region_helpers.py
Sim(sigs, k1, k2) == calculate_jaccard_similarity(sigs[k1].signature, sigs[k2].signature)

\* an upward walk that goes on in one file when the other has no prev link
RECURSIVE WalkUpOneSided(_, _, _, _)
WalkUpOneSided(sigs, c1, c2, threshold) ==
    LET prev_sig1 == sigs[c1].prev_signature
        prev_sig2 == sigs[c2].prev_signature
        up1 == IF prev_sig1 = None THEN c1 ELSE prev_sig1
        up2 == IF prev_sig2 = None THEN c2 ELSE prev_sig2
    IN  IF prev_sig1 = None /\ prev_sig2 = None THEN <<c1, c2>>
        ELSE IF SimLess(Sim(sigs, up1, up2), threshold) THEN <<c1, c2>>
        ELSE WalkUpOneSided(sigs, up1, up2, threshold)

\* the upward walk from (c1, c2): the pair it stops at
RECURSIVE WalkUp(_, _, _, _)
WalkUp(sigs, c1, c2, threshold) ==
    LET prev_sig1 == sigs[c1].prev_signature
        prev_sig2 == sigs[c2].prev_signature
    IN  IF prev_sig1 = None \/ prev_sig2 = None THEN <<c1, c2>>
        ELSE IF SimLess(Sim(sigs, prev_sig1, prev_sig2), threshold) THEN <<c1, c2>>
        ELSE WalkUp(sigs, prev_sig1, prev_sig2, threshold)

\* the keys collected from the upward endpoint (t1, t2) down to the seed
RECURSIVE CollectKeys(_, _, _, _, _)
CollectKeys(sigs, t1, t2, key1, key2) ==
    IF t1 = None \/ t2 = None THEN <<>>
    ELSE IF t1 = key1 /\ t2 = key2 THEN <<<<t1, t2>>>>
    ELSE <<<<t1, t2>>>> \o CollectKeys(sigs, sigs[t1].next_signature,
                                        sigs[t2].next_signature, key1, key2)

\* a downward walk that steps first and compares afterwards
RECURSIVE WalkDownStepFirst(_, _, _, _)
WalkDownStepFirst(sigs, c1, c2, threshold) ==
    LET next_sig1 == sigs[c1].next_signature
        next_sig2 == sigs[c2].next_signature
    IN  IF next_sig1 = None \/ next_sig2 = None THEN <<>>
        ELSE <<<<next_sig1, next_sig2>>>> \o
             (IF SimLess(Sim(sigs, next_sig1, next_sig2), threshold) THEN <<>>
              ELSE WalkDownStepFirst(sigs, next_sig1, next_sig2, threshold))

\* the downward walk from (c1, c2): the pairs it steps to, in order
RECURSIVE WalkDown(_, _, _, _)
WalkDown(sigs, c1, c2, threshold) ==
    LET next_sig1 == sigs[c1].next_signature
        next_sig2 == sigs[c2].next_signature
    IN  IF next_sig1 = None \/ next_sig2 = None THEN <<>>
        ELSE IF SimLess(Sim(sigs, next_sig1, next_sig2), threshold) THEN <<>>
        ELSE <<<<next_sig1, next_sig2>>>> \o WalkDown(sigs, next_sig1, next_sig2, threshold)

\* the pairs in the order file 1, file 2 only
VisitedPairsOneOrdering(keys1, keys2) == {<<a, b>> : a \in keys1, b \in keys2}

\* the pairs of region_keys_file1 x region_keys_file2, both orderings
VisitedPairs(keys1, keys2) ==
    {<<a, b>> : a \in keys1, b \in keys2} \cup {<<b, a>> : a \in keys1, b \in keys2}

\* the length of the region counted in traversed pairs, not in original lines
expand_similiarity_region_key_count(sigs, key1, key2, threshold) ==
    IF SimLess(Sim(sigs, key1, key2), threshold) THEN None
    ELSE
      LET start == WalkUp(sigs, key1, key2, threshold)
          pairs == CollectKeys(sigs, start[1], start[2], key1, key2)
                      \o WalkDown(sigs, key1, key2, threshold)
          end == pairs[Len(pairs)]
      IN  [file1 |-> sigs[key1].file,
           file2 |-> sigs[key2].file,
           file1_start |-> sigs[start[1]].original_line_number,
           file2_start |-> sigs[start[2]].original_line_number,
           file1_end |-> sigs[end[1]].original_line_number,
           file2_end |-> sigs[end[2]].original_line_number,
           total_lines |-> Len(pairs),
           region_keys_file1 |-> [n \in 1..Len(pairs) |-> pairs[n][1]],
           region_keys_file2 |-> [n \in 1..Len(pairs) |-> pairs[n][2]]]

\* None, or the region with the keys the expansion traversed in each file
expand_similiarity_region(sigs, key1, key2, threshold) ==
    IF SimLess(Sim(sigs, key1, key2), threshold) THEN None
    ELSE
      LET start == WalkUp(sigs, key1, key2, threshold)
          pairs == CollectKeys(sigs, start[1], start[2], key1, key2)
                      \o WalkDown(sigs, key1, key2, threshold)
          end == pairs[Len(pairs)]
          start_line_file_1 == sigs[start[1]].original_line_number
          start_line_file_2 == sigs[start[2]].original_line_number
          end_line_file_1 == sigs[end[1]].original_line_number
          end_line_file_2 == sigs[end[2]].original_line_number
      IN  [file1 |-> sigs[key1].file,
           file2 |-> sigs[key2].file,
           file1_start |-> start_line_file_1,
           file2_start |-> start_line_file_2,
           file1_end |-> end_line_file_1,
           file2_end |-> end_line_file_2,
           total_lines |-> Max(end_line_file_1 - start_line_file_1 + 1,
                               end_line_file_2 - start_line_file_2 + 1),
           region_keys_file1 |-> [n \in 1..Len(pairs) |-> pairs[n][1]],
           region_keys_file2 |-> [n \in 1..Len(pairs) |-> pairs[n][2]]]

\* ---------------------------------------------------------------- heapq
\* the entries compared by the region alone, the length left out
HeapLessByRegion(a, b) == TupleLess(a[2], b[2])

\* order of the heap entries (-region_lines, (file1, file2, ...)): Python's
\* tuple comparison
HeapLess(a, b) == a[1] < b[1] \/ (a[1] = b[1] /\ TupleLess(a[2], b[2]))

\* the position heappop takes: a smallest entry
HeapTop(heap) ==
    CHOOSE n \in 1..Len(heap) :
        /\ \A m \in 1..Len(heap) : ~HeapLess(heap[m], heap[n])
        /\ \A m \in 1..(n - 1) : HeapLess(heap[n], heap[m])

HeapRemove(heap, n) == SubSeq(heap, 1, n - 1) \o SubSeq(heap, n + 1, Len(heap))

HeapEntry(region) ==
    <<-region.total_lines, <<region.file1, region.file2, region.file1_start,
                             region.file1_end, region.file2_start, region.file2_end>>>>

\* ---------------------------------------------------------------- state
VARIABLES
    pc,             \* the phase of main.py the run is in
    config,         \* read_config()
    file_mapping,   \* read_codebase(): file -> code, line_mapping
    hash_functions, \* lsh: the shuffled permutations
    signatures,     \* lsh: the signature store
    candidates,     \* lsh: the candidate pairs of step 6
    adj_list,       \* lsh: similiarity_adjacency_list, in dict order
    ki, vi,         \* find_similiar_regions: position of the two loops
    visited,        \* find_similiar_regions: visited
    max_heap,       \* find_similiar_regions: max_heap
    top,            \* find_similiar_regions: top
    res,            \* find_similiar_regions: res
    expansions,     \* history: the seed and the result of every expansion attempted
    results_file,   \* main.py: results.json, whether this run wrote it and what
    first_run,      \* what an earlier run on the same input produced, None in a first run
    args, result,   \* a function called on its own: its arguments and what it returned
    request_counts, \* server.py: request_counts, the timestamps kept for each client ip
    now,            \* server.py: the clock datetime.now() reads, in seconds
    responses       \* history: the client ip, time and status of every request handled

vars == <<pc, config, file_mapping, hash_functions, signatures, candidates, adj_list,
          ki, vi, visited, max_heap, top, res, expansions, results_file, first_run, args, result,
          request_counts, now, responses>>

lshVars == <<hash_functions, signatures, candidates, adj_list>>
findVars == <<ki, vi, visited, max_heap, top, res, expansions>>
serverVars == <<request_counts, now, responses>>
auxVars == <<first_run, args, result, serverVars>>

\* the server is not running: its variables keep these values
NoServer ==
    /\ request_counts = <<>>
    /\ now = 0
    /\ responses = <<>>

\* results.json before the run writes it
NoResultsFile == [written |-> FALSE, content |-> <<>>]

\* a normalized file none of whose lines was dropped: line i is line i
NormalizedFiles ==
    {[code |-> c, line_mapping |-> [i \in 1..Len(c) |-> i]] : c \in SeqsOf(Lines, 1, MaxLines)}

Configs ==
    [region_length : 1..MaxRegionLength,
     candidate_threshold : Thresholds,
     line_threshold : Thresholds]

Init ==
    /\ pc = "lsh"
    /\ config \in Configs
    /\ file_mapping \in [FileKeys -> NormalizedFiles]
    /\ hash_functions = <<>>
    /\ signatures = <<>>
    /\ candidates = {}
    /\ adj_list = <<>>
    /\ ki = 1
    /\ vi = 1
    /\ visited = {}
    /\ max_heap = <<>>
    /\ top = None
    /\ res = <<>>
    /\ expansions = <<>>
    /\ results_file = NoResultsFile
    /\ first_run = None
    /\ args = None
    /\ result = None
    /\ NoServer

\* config[key] is defined for every key of keys
HasKeys(keys) == keys \subseteq DOMAIN config

\* ---------------------------------------------------------------- lsh
\* steps 1-4: vocabulary, hash functions, signature store
LshSignatures ==
    /\ pc = "lsh"
    /\ HasKeys({"candidate_threshold"})
    /\ LET shingle_index_map == ShingleIndexMap(file_mapping)
       IN  \E hf \in generate_hash_functions(NumHash, Cardinality(DOMAIN shingle_index_map)) :
              /\ hash_functions' = hf
              /\ signatures' = LinkSignatures(
                                  BuildSignatures(file_mapping, shingle_index_map, hf),
                                  file_mapping)
    /\ pc' = "banding"
    /\ UNCHANGED <<config, file_mapping, candidates, adj_list, findVars, results_file, auxVars>>

\* steps 5-6: band buckets and candidate pairs
LshCandidates ==
    /\ pc = "banding"
    /\ candidates' = Candidates(create_band_buckets(signatures, NumBands))
    /\ pc' = "graph"
    /\ UNCHANGED <<config, file_mapping, hash_functions, signatures, adj_list, findVars, results_file, auxVars>>

\* step 7: the adjacency map; lsh returns
LshAdjacency ==
    /\ pc = "graph"
    /\ adj_list' = BuildAdjacency(<<>>, CandidateOrder(candidates, signatures), 1, signatures,
                                  config.candidate_threshold)
    /\ pc' = "regions"
    /\ UNCHANGED <<config, file_mapping, hash_functions, signatures, candidates, findVars, results_file, auxVars>>

\* ---------------------------------------------------------------- find_similiar_regions
\* main.py: region_threshold = -config["region_length"]
region_threshold == -config.region_length

\* the guard of line 26 without the comparison of the files
SeedAdmittedAnyFile(id1, id2) ==
    /\ <<id1, id2>> \notin visited
    /\ <<id2, id1>> \notin visited

\* the guard of line 26 for key = id1 and similiar_key = id2
SeedAdmitted(id1, id2) ==
    /\ <<id1, id2>> \notin visited
    /\ <<id2, id1>> \notin visited
    /\ signatures[id1].file # signatures[id2].file

\* the two loops of lines 14 and 22 stand at the ki-th key and its vi-th
\* neighbour; the positions still to come that pass the guard of line 26
\* (visited changes only when a seed is expanded)
AdmittedAhead ==
    {p \in UNION {{<<k, v>> : v \in 1..Len(adj_list[k].values)} : k \in ki..Len(adj_list)} :
        /\ (p[1] > ki \/ p[2] >= vi)
        /\ SeedAdmitted(adj_list[p[1]].key, adj_list[p[1]].values[p[2]])}

\* the loops run on, past the pairs that fail the guard, to the first of ahead
SeedPos(ahead) ==
    LET k == Min({p[1] : p \in ahead})
    IN  <<k, Min({p[2] : p \in {q \in ahead : q[1] = k}})>>

\* the loops move on to the pair after position p
Advance(p) ==
    IF p[2] < Len(adj_list[p[1]].values)
    THEN ki' = p[1] /\ vi' = p[2] + 1
    ELSE ki' = p[1] + 1 /\ vi' = 1

\* the seed pair itself is below the line threshold: expansion returns None
ExpandNone ==
    /\ pc = "regions"
    /\ HasKeys({"region_length", "line_threshold"})
    /\ LET ahead == AdmittedAhead
           p == SeedPos(ahead)
           key == adj_list[p[1]].key
           similiar_key == adj_list[p[1]].values[p[2]]
       IN  /\ ahead # {}
           /\ expand_similiarity_region(signatures, key, similiar_key, config.line_threshold)
                  = None
           /\ expansions' = Append(expansions, [seed |-> <<key, similiar_key>>, region |-> None])
           /\ Advance(p)
    /\ UNCHANGED <<pc, config, file_mapping, lshVars, visited, max_heap, top, res, results_file, auxVars>>

\* the seed grows into a region, which is pushed on the heap
ExpandPush ==
    /\ pc = "regions"
    /\ HasKeys({"region_length", "line_threshold"})
    /\ LET ahead == AdmittedAhead
           p == SeedPos(ahead)
           key == adj_list[p[1]].key
           similiar_key == adj_list[p[1]].values[p[2]]
           similiar_region ==
              expand_similiarity_region(signatures, key, similiar_key, config.line_threshold)
       IN  /\ ahead # {}
           /\ similiar_region # None
           /\ visited' = visited \cup VisitedPairs(Range(similiar_region.region_keys_file1),
                                                   Range(similiar_region.region_keys_file2))
           /\ max_heap' = Append(max_heap, HeapEntry(similiar_region))
           /\ expansions' = Append(expansions,
                                   [seed |-> <<key, similiar_key>>, region |-> similiar_region])
           /\ Advance(p)
    /\ UNCHANGED <<pc, config, file_mapping, lshVars, top, res, results_file, auxVars>>

\* no pair is left to expand; line 35 on a heap with an entry
PopTop ==
    /\ pc = "regions"
    /\ HasKeys({"region_length", "line_threshold"})
    /\ AdmittedAhead = {}
    /\ max_heap # <<>>
    /\ ki' = Len(adj_list) + 1
    /\ vi' = 1
    /\ top' = max_heap[HeapTop(max_heap)]
    /\ max_heap' = HeapRemove(max_heap, HeapTop(max_heap))
    /\ pc' = "filter"
    /\ UNCHANGED <<config, file_mapping, lshVars, visited, res, expansions, results_file, auxVars>>

\* no pair is left to expand; line 35 on an empty heap: heappop raises IndexError
PopEmpty ==
    /\ pc = "regions"
    /\ HasKeys({"region_length", "line_threshold"})
    /\ AdmittedAhead = {}
    /\ max_heap = <<>>
    /\ ki' = Len(adj_list) + 1
    /\ vi' = 1
    /\ pc' = "raised"
    /\ UNCHANGED <<config, file_mapping, lshVars, visited, max_heap, top, res, expansions, results_file, auxVars>>

\* the loop condition without the comparison against region_threshold
FilterCondNoGate == top # None /\ max_heap # <<>>

\* the condition of the while loop of line 37
FilterCond == top # None /\ top[1] < region_threshold /\ max_heap # <<>>

FilterStep ==
    /\ pc = "filter"
    /\ FilterCond
    /\ res' = Append(res, top)
    /\ top' = max_heap[HeapTop(max_heap)]
    /\ max_heap' = HeapRemove(max_heap, HeapTop(max_heap))
    /\ UNCHANGED <<pc, config, file_mapping, lshVars, ki, vi, visited, expansions, results_file, auxVars>>

Return ==
    /\ pc = "filter"
    /\ ~FilterCond
    /\ pc' = "returned"
    /\ UNCHANGED <<config, file_mapping, lshVars, findVars, results_file, auxVars>>

\* a line of the original file that the normalizer dropped (a blank line)
DroppedLine == <<>>

\* lines1[line_number - 1] of the file on disk: the code line the normalizer
\* kept under that number, or a dropped line
OriginalLine(file, line_number) ==
    LET line_mapping == file_mapping[file].line_mapping
    IN  IF \E i \in 1..Len(line_mapping) : line_mapping[i] = line_number
        THEN file_mapping[file].code[CHOOSE i \in 1..Len(line_mapping) :
                                        line_mapping[i] = line_number]
        ELSE DroppedLine

\* main.py lines 30-37: the entry of results.json for a returned region, the
\* code being the lines start..end of each file
get_similiar_region_code(file1, file2, start1, end1, start2, end2) ==
    [file1 |-> [i \in 1..(end1 - start1 + 1) |-> OriginalLine(file1, start1 + i - 1)],
     file2 |-> [i \in 1..(end2 - start2 + 1) |-> OriginalLine(file2, start2 + i - 1)]]

ResultEntry(region) ==
    [regions |-> get_similiar_region_code(region[2][1], region[2][2], region[2][3],
                                          region[2][4], region[2][5], region[2][6]),
     file1 |-> region[2][1],
     file2 |-> region[2][2]]

\* main.py lines 27-40: the code of every region is read, then results.json
\* is written
WriteResults ==
    /\ pc = "returned"
    /\ results_file' = [written |-> TRUE,
                        content |-> [n \in 1..Len(res) |-> ResultEntry(res[n])]]
    /\ pc' = "written"
    /\ UNCHANGED <<config, file_mapping, lshVars, findVars, auxVars>>

\* the entries read so far are written before the exception leaves main.py
ExtractRaisesPartialWrite ==
    /\ pc = "returned"
    /\ res # <<>>
    /\ results_file' = [written |-> TRUE,
                        content |-> [n \in 1..(Len(res) - 1) |-> ResultEntry(res[n])]]
    /\ pc' = "raised"
    /\ UNCHANGED <<config, file_mapping, lshVars, findVars, auxVars>>

\* main.py line 37: reading a file of a region raises (it can no longer be
\* opened or decoded); the exception leaves main.py
ExtractRaises ==
    /\ pc = "returned"
    /\ res # <<>>
    /\ pc' = "raised"
    /\ UNCHANGED <<config, file_mapping, lshVars, findVars, results_file, auxVars>>

Next ==
    \/ LshSignatures
    \/ LshCandidates
    \/ LshAdjacency
    \/ ExpandNone
    \/ ExpandPush
    \/ PopTop
    \/ PopEmpty
    \/ FilterStep
    \/ Return
    \/ WriteResults
    \/ ExtractRaises

Spec == Init /\ [][Next]_vars

\* ---------------------------------------------------------------- main.py on any config.json
\* the values config.json may hold: region_length from 0 (0 is below the
\* range), thresholds from below 0 to above 1
RegionLengthValues == 0..MaxRegionLength
ThresholdValues == {<<n, ThresholdDen>> : n \in (-1)..(ThresholdDen + 1)}
ConfigKeys == {"region_length", "candidate_threshold", "line_threshold"}

\* the objects json.load may return: any of the three keys may be missing
ConfigJsons ==
    {[k \in present |-> c[k]] :
        present \in SUBSET ConfigKeys,
        c \in [region_length : RegionLengthValues,
               candidate_threshold : ThresholdValues,
               line_threshold : ThresholdValues]}

\* config.json: unreadable (missing, or not JSON), or an object
ConfigFiles ==
    {[readable |-> FALSE, json |-> None]} \cup {[readable |-> TRUE, json |-> c] : c \in ConfigJsons}

\* codebases of two files that repeat one line
RepeatedLineFiles ==
    {[code |-> c, line_mapping |-> [i \in 1..Len(c) |-> i]] : c \in SeqsOf({LineP}, 1, MaxLines)}

\* main.py is started: args is the content of config.json, file_mapping what
\* read_codebase will return
InitConfig ==
    /\ pc = "config"
    /\ args \in ConfigFiles
    /\ config = None
    /\ file_mapping \in [FileKeys -> RepeatedLineFiles]
    /\ hash_functions = <<>>
    /\ signatures = <<>>
    /\ candidates = {}
    /\ adj_list = <<>>
    /\ ki = 1
    /\ vi = 1
    /\ visited = {}
    /\ max_heap = <<>>
    /\ top = None
    /\ res = <<>>
    /\ expansions = <<>>
    /\ results_file = NoResultsFile
    /\ first_run = None
    /\ result = None
    /\ NoServer

\* read_config: json.load of config.json, returned as it is
read_config ==
    /\ pc = "config"
    /\ args.readable
    /\ config' = args.json
    /\ pc' = "lsh"
    /\ UNCHANGED <<file_mapping, lshVars, findVars, results_file, auxVars>>

\* read_config: open or json.load raises
read_config_raises ==
    /\ pc = "config"
    /\ ~args.readable
    /\ pc' = "raised"
    /\ UNCHANGED <<config, file_mapping, lshVars, findVars, results_file, auxVars>>

\* main.py line 21: config["candidate_threshold"] raises KeyError
CandidateThresholdMissing ==
    /\ pc = "lsh"
    /\ ~HasKeys({"candidate_threshold"})
    /\ pc' = "raised"
    /\ UNCHANGED <<config, file_mapping, lshVars, findVars, results_file, auxVars>>

\* main.py lines 25-26: config["region_length"] or config["line_threshold"]
\* raises KeyError, lsh having returned
RegionConfigMissing ==
    /\ pc = "regions"
    /\ ~HasKeys({"region_length", "line_threshold"})
    /\ pc' = "raised"
    /\ UNCHANGED <<config, file_mapping, lshVars, findVars, results_file, auxVars>>

NextConfig ==
    \/ read_config
    \/ read_config_raises
    \/ CandidateThresholdMissing
    \/ RegionConfigMissing
    \/ Next

SpecConfig == InitConfig /\ [][NextConfig]_vars

\* ---------------------------------------------------------------- main.py on files with dropped lines
\* normalized files of signed lines whose kept lines are any lines
\* 1..MaxOriginalLine of the original, in increasing order (normalize_file_path
\* numbers the lines as it reads them)
MaxOriginalLine == 4
LineMappings(n) ==
    {m \in [1..n -> 1..MaxOriginalLine] : \A i, j \in 1..n : i < j => m[i] < m[j]}
MappedFiles(lines) ==
    UNION {{[code |-> c, line_mapping |-> m] : c \in [1..n -> lines],
                                                m \in LineMappings(n)} : n \in 1..MaxLines}

\* the run starts at lsh; every pair of a bucket with a matching component
\* becomes an edge; file 1 repeats one line
InitMapped ==
    /\ pc = "lsh"
    /\ config \in {c \in Configs : c.candidate_threshold = <<0, ThresholdDen>>}
    /\ file_mapping \in {fm \in [FileKeys -> MappedFiles({LineP, LineQ})] :
                           fm[1] \in MappedFiles({LineP})}
    /\ hash_functions = <<>>
    /\ signatures = <<>>
    /\ candidates = {}
    /\ adj_list = <<>>
    /\ ki = 1
    /\ vi = 1
    /\ visited = {}
    /\ max_heap = <<>>
    /\ top = None
    /\ res = <<>>
    /\ expansions = <<>>
    /\ results_file = NoResultsFile
    /\ first_run = None
    /\ args = None
    /\ result = None
    /\ NoServer

SpecMapped == InitMapped /\ [][Next]_vars

\* ---------------------------------------------------------------- main.py run twice
\* codebases whose lines are all long enough to be signed
SignedLineFiles ==
    {[code |-> c, line_mapping |-> [i \in 1..Len(c) |-> i]] :
        c \in SeqsOf({LineP, LineQ}, 1, MaxLines)}

InitRerun ==
    /\ pc = "lsh"
    /\ config \in Configs
    /\ file_mapping \in [FileKeys -> SignedLineFiles]
    /\ hash_functions = <<>>
    /\ signatures = <<>>
    /\ candidates = {}
    /\ adj_list = <<>>
    /\ ki = 1
    /\ vi = 1
    /\ visited = {}
    /\ max_heap = <<>>
    /\ top = None
    /\ res = <<>>
    /\ expansions = <<>>
    /\ results_file = NoResultsFile
    /\ first_run = None
    /\ args = None
    /\ result = None
    /\ NoServer

\* what a run that has ended produced
RunOutcome ==
    [pc |-> pc,
     hash_functions |-> hash_functions,
     signatures |-> signatures,
     adj_list |-> adj_list,
     res |-> res,
     results_file |-> results_file]

\* main.py is started again on the same codebase and the same config.json
Rerun ==
    /\ pc = "written" \/ pc = "raised"
    /\ first_run = None
    /\ first_run' = RunOutcome
    /\ pc' = "lsh"
    /\ hash_functions' = <<>>
    /\ signatures' = <<>>
    /\ candidates' = {}
    /\ adj_list' = <<>>
    /\ ki' = 1
    /\ vi' = 1
    /\ visited' = {}
    /\ max_heap' = <<>>
    /\ top' = None
    /\ res' = <<>>
    /\ expansions' = <<>>
    /\ results_file' = NoResultsFile
    /\ UNCHANGED <<config, file_mapping, args, result, serverVars>>

SpecRerun == InitRerun /\ [][Next \/ Rerun]_vars

\* ---------------------------------------------------------------- server.py
\* RATE_LIMIT_REQUESTS (10 in the program) and RATE_LIMIT_WINDOW (60 seconds
\* in the program), scaled down; the clock runs to MaxTime and the server
\* handles MaxRequests requests
RATE_LIMIT_REQUESTS == 2
RATE_LIMIT_WINDOW == 3
MaxTime == 4
MaxRequests == 4

Addresses == {"a", "b"}

\* a request: the addresses of its X-Forwarded-For header (split at the
\* commas), its X-Real-IP header and request.client.host, each <<>> when absent
Requests ==
    [forwarded_for : SeqsOf(Addresses, 0, 1),
     real_ip : SeqsOf(Addresses, 0, 1),
     client : SeqsOf(Addresses, 0, 1)]

get_client_ip(request) ==
    IF request.forwarded_for # <<>> THEN request.forwarded_for[1]
    ELSE IF request.real_ip # <<>> THEN request.real_ip[1]
    ELSE IF request.client # <<>> THEN request.client[1]
    ELSE "unknown"

ClientIps == Addresses \cup {"unknown"}

\* the limit tested with > instead of >=
is_rate_limited_off_by_one(counts, client_ip, t) ==
    LET kept == SelectSeq(counts[client_ip], LAMBDA timestamp : t - timestamp < RATE_LIMIT_WINDOW)
    IN  IF Len(kept) > RATE_LIMIT_REQUESTS
        THEN [limited |-> TRUE, request_counts |-> [counts EXCEPT ![client_ip] = kept]]
        ELSE [limited |-> FALSE,
              request_counts |-> [counts EXCEPT ![client_ip] = Append(kept, t)]]

\* is_rate_limited at time t: what it returns and what it leaves in
\* request_counts
is_rate_limited(counts, client_ip, t) ==
    LET kept == SelectSeq(counts[client_ip], LAMBDA timestamp : t - timestamp < RATE_LIMIT_WINDOW)
    IN  IF Len(kept) >= RATE_LIMIT_REQUESTS
        THEN [limited |-> TRUE, request_counts |-> [counts EXCEPT ![client_ip] = kept]]
        ELSE [limited |-> FALSE,
              request_counts |-> [counts EXCEPT ![client_ip] = Append(kept, t)]]

\* the server has started: request_counts = defaultdict(list), every client
\* ip with the empty list
InitServer ==
    /\ pc = "serving"
    /\ request_counts = [ip \in ClientIps |-> <<>>]
    /\ now = 0
    /\ responses = <<>>
    /\ args = None
    /\ result = None
    /\ config = None
    /\ file_mapping = None
    /\ hash_functions = <<>>
    /\ signatures = <<>>
    /\ candidates = {}
    /\ adj_list = <<>>
    /\ ki = 1
    /\ vi = 1
    /\ visited = {}
    /\ max_heap = <<>>
    /\ top = None
    /\ res = <<>>
    /\ expansions = <<>>
    /\ results_file = NoResultsFile
    /\ first_run = None

mainVars == <<pc, config, file_mapping, lshVars, findVars, results_file, first_run, args, result>>

\* the clock datetime.now() reads moves on by a second (it does not go back)
Tick ==
    /\ pc = "serving"
    /\ now < MaxTime
    /\ now' = now + 1
    /\ UNCHANGED <<request_counts, responses, mainVars>>

\* RateLimitMiddleware.dispatch: the request is answered with status 429
DispatchLimited ==
    /\ pc = "serving"
    /\ Len(responses) < MaxRequests
    /\ \E request \in Requests :
          LET client_ip == get_client_ip(request)
              limited == is_rate_limited(request_counts, client_ip, now)
          IN  /\ limited.limited
              /\ request_counts' = limited.request_counts
              /\ responses' = Append(responses,
                                     [client_ip |-> client_ip, time |-> now, limited |-> TRUE])
    /\ UNCHANGED <<now, mainVars>>

\* RateLimitMiddleware.dispatch: the request is passed on to call_next
DispatchNext ==
    /\ pc = "serving"
    /\ Len(responses) < MaxRequests
    /\ \E request \in Requests :
          LET client_ip == get_client_ip(request)
              limited == is_rate_limited(request_counts, client_ip, now)
          IN  /\ ~limited.limited
              /\ request_counts' = limited.request_counts
              /\ responses' = Append(responses,
                                     [client_ip |-> client_ip, time |-> now, limited |-> FALSE])
    /\ UNCHANGED <<now, mainVars>>

NextServer == Tick \/ DispatchLimited \/ DispatchNext

SpecServer == InitServer /\ [][NextServer]_vars

\* ---------------------------------------------------------------- functions called on their own
\* no run of main.py is under way: the variables of the run keep these values
NoRun ==
    /\ config = None
    /\ file_mapping = None
    /\ hash_functions = <<>>
    /\ signatures = <<>>
    /\ candidates = {}
    /\ adj_list = <<>>
    /\ ki = 1
    /\ vi = 1
    /\ visited = {}
    /\ max_heap = <<>>
    /\ top = None
    /\ res = <<>>
    /\ expansions = <<>>
    /\ results_file = NoResultsFile
    /\ first_run = None
    /\ NoServer

runVars == <<config, file_mapping, lshVars, findVars, results_file, first_run, serverVars>>

\* signatures of 1..MaxSigLen components in 0..MaxSigValue
MaxSigLen == 3
MaxSigValue == 1
SignatureInputs == SeqsOf(0..MaxSigValue, 1, MaxSigLen)

InitJaccard ==
    /\ pc = "call"
    /\ args \in [sig1 : SignatureInputs, sig2 : SignatureInputs]
    /\ result = None
    /\ NoRun

CallJaccard ==
    /\ pc = "call"
    /\ result' = calculate_jaccard_similarity(args.sig1, args.sig2)
    /\ pc' = "done"
    /\ UNCHANGED <<args, runVars>>

SpecJaccard == InitJaccard /\ [][CallJaccard]_vars

\* lines of 0..MaxCodeLen characters (two characters, such as "a" and "A"),
\* shingle sizes 1..MaxShingleK
MaxCodeLen == 5
MaxShingleK == 3
CodeInputs == SeqsOf({1, 2}, 0, MaxCodeLen)

InitShingle ==
    /\ pc = "call"
    /\ args \in [code : CodeInputs, k : 1..MaxShingleK]
    /\ result = None
    /\ NoRun

CallShingle ==
    /\ pc = "call"
    /\ result' = generate_shingle_set(args.code, args.k)
    /\ pc' = "done"
    /\ UNCHANGED <<args, runVars>>

SpecShingle == InitShingle /\ [][CallShingle]_vars

\* signature stores of at most two signed lines, every signature of n
\* components, to be split into 1..MaxBands bands
MaxBands == 3
StoreIds == {<<1, 0>>, <<1, 1>>}
StoreInputs(n) ==
    UNION {[ids -> [signature : [1..n -> 0..MaxSigValue]]] : ids \in SUBSET StoreIds}

InitBands ==
    /\ pc = "call"
    /\ \E n \in 1..MaxSigLen :
          args \in [signatures : StoreInputs(n), num_hash : {n}, num_bands : 1..MaxBands]
    /\ result = None
    /\ NoRun

\* create_band_buckets returns the buckets
CallBandBuckets ==
    /\ pc = "call"
    /\ ~create_band_buckets_asserts(args.signatures, args.num_bands)
    /\ result' = create_band_buckets(args.signatures, args.num_bands)
    /\ pc' = "done"
    /\ UNCHANGED <<args, runVars>>

\* split_vector raises AssertionError out of create_band_buckets
CallBandBucketsAsserts ==
    /\ pc = "call"
    /\ create_band_buckets_asserts(args.signatures, args.num_bands)
    /\ pc' = "raised"
    /\ UNCHANGED <<args, result, runVars>>

SpecBands == InitBands /\ [][CallBandBuckets \/ CallBandBucketsAsserts]_vars

\* the lines a file is made of: a body, indented or not, and the newline
RawBodies ==
    {<<>>, <<"x">>, <<"#", "x">>, TripleDoubleQuote, TripleSingleQuote, <<"'", "x">>,
     <<"@", "x">>, <<"i", "m", "p", "o", "r", "t">>, <<"f", "r", "o", "m">>}
RawLines == {indent \o body \o <<"\n">> : indent \in {<<>>, <<" ">>}, body \in RawBodies}

\* files of at most MaxRawLines lines, and a file that cannot be read
MaxRawLines == 3
UnreadableFile == [readable |-> FALSE, lines |-> <<>>]
RawFiles ==
    {UnreadableFile} \cup {[readable |-> TRUE, lines |-> l] : l \in SeqsOf(RawLines, 0, MaxRawLines)}

InitNormalize ==
    /\ pc = "call"
    /\ args \in RawFiles
    /\ result = None
    /\ NoRun

CallNormalize ==
    /\ pc = "call"
    /\ result' = normalize_file_path(args)
    /\ pc' = "done"
    /\ UNCHANGED <<args, runVars>>

SpecNormalize == InitNormalize /\ [][CallNormalize]_vars

\* ------------------------------------------------------------ codebase.py
\* A directory is [files, sub_folders]; the path of a file is the path of its
\* directory followed by the file's position in get_subfiles' list.  read_dir
\* is called with hidden_filepaths.txt present, so line 7 does not raise.
KeepFileAlways(code, line_mapping) == TRUE

\* codebase.py:17  "if code and line_mapping": None and [] are both falsy
KeepFile(code, line_mapping) == code # <<>> /\ line_mapping # <<>>

RECURSIVE ReadFiles(_, _, _, _)
ReadFiles(current_path, sub_files, i, file_mappings) ==
    IF i > Len(sub_files) THEN file_mappings
    ELSE LET file == current_path \o <<i>>
             normalized == normalize_file_path(sub_files[i])
             code == normalized[1]
             line_mapping == normalized[2]
         IN  ReadFiles(current_path, sub_files, i + 1,
                 IF KeepFile(code, line_mapping)
                 THEN (file :> [code |-> code, line_mapping |-> line_mapping])
                          @@ file_mappings
                 ELSE file_mappings)

RECURSIVE read_dir(_, _)
RECURSIVE ReadFolders(_, _, _, _)
ReadFolders(current_path, sub_folders, j, file_mappings) ==
    IF j > Len(sub_folders) THEN file_mappings
    ELSE ReadFolders(current_path, sub_folders, j + 1,
             read_dir(current_path \o <<j>>, sub_folders[j]) @@ file_mappings)

read_dir(current_path, dir) ==
    ReadFolders(current_path, dir.sub_folders, 1,
                ReadFiles(current_path, dir.files, 1, <<>>))

\* the files of a directory: one that cannot be read, one with no code line,
\* one with a code line, one with a comment and a code line
DirFiles ==
    {UnreadableFile,
     [readable |-> TRUE, lines |-> <<<<"#", "x", "\n">>>>],
     [readable |-> TRUE, lines |-> <<<<"x", "\n">>>>],
     [readable |-> TRUE, lines |-> <<<<"#", "x", "\n">>, <<" ", "x", "\n">>>>]}
MaxDirFiles == 2
MaxSubFolders == 1
LeafDirs ==
    {[files |-> f, sub_folders |-> <<>>] : f \in SeqsOf(DirFiles, 0, MaxDirFiles)}
Dirs ==
    {[files |-> f, sub_folders |-> s] :
        f \in SeqsOf(DirFiles, 0, MaxDirFiles), s \in SeqsOf(LeafDirs, 0, MaxSubFolders)}

InitReadDir ==
    /\ pc = "call"
    /\ args \in Dirs
    /\ result = None
    /\ NoRun

CallReadDir ==
    /\ pc = "call"
    /\ result' = read_dir(<<>>, args)
    /\ pc' = "done"
    /\ UNCHANGED <<args, runVars>>

SpecReadDir == InitReadDir /\ [][CallReadDir]_vars

\* create_signature on any shingle set: the shingles are 1..MaxShingleId, the
\* vocabulary is the shingles 1..V with V <= MaxVocabulary, shingle s at index
\* s - 1, and the hash functions are any NumHash permutations of 0..V-1
MaxVocabulary == 3
MaxShingleId == 4
SignatureCalls ==
    UNION {[shingle_set : SUBSET (1..MaxShingleId) \ {{}},
            shingle_index_map : {[s \in 1..v |-> s - 1]},
            hash_functions : generate_hash_functions(NumHash, v)] : v \in 0..MaxVocabulary}

InitSignature ==
    /\ pc = "call"
    /\ args \in SignatureCalls
    /\ result = None
    /\ NoRun

CallSignature ==
    /\ pc = "call"
    /\ result' = create_signature(args.shingle_set, args.shingle_index_map, args.hash_functions)
    /\ pc' = "done"
    /\ UNCHANGED <<args, runVars>>

SpecSignature == InitSignature /\ [][CallSignature]_vars

\* ---------------------------------------------------------------- properties
\* the expansions that returned a region, and those whose region is in res
Successful == {n \in 1..Len(expansions) : expansions[n].region # None}
Emitted == {n \in Successful : HeapEntry(expansions[n].region) \in Range(res)}

\* the fingerprint pairs expansion n marked visited
PairsOf(n) == VisitedPairs(Range(expansions[n].region.region_keys_file1),
                           Range(expansions[n].region.region_keys_file2))

\* the lines of file f that region r covers
LinesIn(r, f) ==
    IF r.file1 = f THEN r.file1_start..r.file1_end ELSE r.file2_start..r.file2_end

\* C1: when find_similiar_regions has returned, every region that an
\* expansion produced with total_lines >= region_length is in the returned list.
C1_AllQualifyingReturned ==
    pc = "returned" =>
        \A n \in Successful :
            expansions[n].region.total_lines >= config.region_length
                => HeapEntry(expansions[n].region) \in Range(res)

\* C2: the sets of fingerprint pairs marked visited by two distinct emitted
\* regions of one run are disjoint.
C2_VisitedDisjoint ==
    pc = "returned" =>
        \A m, n \in Emitted : m # n => PairsOf(m) \cap PairsOf(n) = {}

\* C3: no two emitted regions over the same two files overlap in both files.
C3_NoOverlapInBothFiles ==
    pc = "returned" =>
        \A m, n \in Emitted :
            LET r1 == expansions[m].region
                r2 == expansions[n].region
            IN  (m # n /\ {r1.file1, r1.file2} = {r2.file1, r2.file2})
                    => \E f \in {r1.file1, r1.file2} : LinesIn(r1, f) \cap LinesIn(r2, f) = {}

\* C4: a run in which no seed produced a region (the adjacency map is empty or
\* every expansion returned None) completes normally and returns the empty list.
C4_NoRegionRunReturnsEmpty ==
    (Successful = {} /\ (pc = "returned" \/ pc = "raised")) => (pc = "returned" /\ res = <<>>)

\* C5: every entry of the list find_similiar_regions builds has a length
\* (total_lines) of at least region_length.
C5_LengthGate ==
    \A n \in 1..Len(res) : -res[n][1] >= config.region_length

C5_Witness == pc = "returned" /\ res # <<>> /\ max_heap # <<>>

\* C6: the returned list is ordered by region length, longest first.
C6_MonotoneOutput ==
    \A n \in 1..(Len(res) - 1) : -res[n][1] >= -res[n + 1][1]

C6_Witness == pc = "returned" /\ Len(res) >= 2 /\ -res[1][1] > -res[2][1]

\* C7: no expansion is attempted from a seed whose two ids are lines of one
\* file, and no region has file1 = file2, neither on the heap nor in the result.
C7_SameFileSuppression ==
    /\ \A n \in 1..Len(expansions) :
          signatures[expansions[n].seed[1]].file # signatures[expansions[n].seed[2]].file
    /\ \A n \in Successful : expansions[n].region.file1 # expansions[n].region.file2
    /\ \A n \in 1..Len(max_heap) : max_heap[n][2][1] # max_heap[n][2][2]
    /\ \A n \in 1..Len(res) : res[n][2][1] # res[n][2][2]

\* a run over an adjacency map with an edge inside one file has returned regions
C7_Witness ==
    /\ pc = "returned"
    /\ res # <<>>
    /\ \E n \in 1..Len(adj_list) : \E m \in 1..Len(adj_list[n].values) :
          adj_list[n].key[1] = adj_list[n].values[m][1]

\* growth from (a, b) in one direction stops: a link is missing or the next
\* pair is below the line threshold
StopsAt(a, b) ==
    a = None \/ b = None \/ SimLess(Sim(signatures, a, b), config.line_threshold)

\* C8: the ids a successful expansion traversed are, in each file, consecutive
\* through the next links and contain the seed pair at one position; every
\* traversed pair has similarity >= line_threshold; growth stopped at both
\* endpoints (no link, or the pair beyond is below line_threshold); and the
\* region starts and ends at the lines of the endpoints.
C8_MaximalGrowth ==
    \A n \in Successful :
        LET r == expansions[n].region
            k1 == r.region_keys_file1
            k2 == r.region_keys_file2
            last == Len(k1)
        IN  /\ Len(k2) = last
            /\ \E j \in 1..last : <<k1[j], k2[j]>> = expansions[n].seed
            /\ \A j \in 1..(last - 1) :
                  /\ signatures[k1[j]].next_signature = k1[j + 1]
                  /\ signatures[k2[j]].next_signature = k2[j + 1]
            /\ \A j \in 1..last :
                  ~SimLess(Sim(signatures, k1[j], k2[j]), config.line_threshold)
            /\ StopsAt(signatures[k1[1]].prev_signature, signatures[k2[1]].prev_signature)
            /\ StopsAt(signatures[k1[last]].next_signature, signatures[k2[last]].next_signature)
            /\ r.file1_start = signatures[k1[1]].original_line_number
            /\ r.file2_start = signatures[k2[1]].original_line_number
            /\ r.file1_end = signatures[k1[last]].original_line_number
            /\ r.file2_end = signatures[k2[last]].original_line_number

\* an expansion walked down at least one step and was stopped by a pair below
\* the line threshold
C8_Witness ==
    \E n \in Successful :
        LET r == expansions[n].region
            k1 == r.region_keys_file1
            k2 == r.region_keys_file2
            a == signatures[k1[Len(k1)]].next_signature
            b == signatures[k2[Len(k2)]].next_signature
        IN  /\ <<k1[Len(k1)], k2[Len(k2)]>> # expansions[n].seed
            /\ a # None
            /\ b # None
            /\ SimLess(Sim(signatures, a, b), config.line_threshold)

\* C9: in the adjacency map lsh returns, when y is a neighbour of x then x is
\* a key of the map and x is a neighbour of y.
C9_GraphSymmetry ==
    (pc # "lsh" /\ pc # "banding" /\ pc # "graph") =>
        \A n \in 1..Len(adj_list) : \A y \in Range(adj_list[n].values) :
            /\ AdjHasKey(adj_list, y)
            /\ adj_list[n].key \in Range(AdjValues(adj_list, y))

C9_Witness == pc = "regions" /\ Len(adj_list) >= 3

\* C10: in the signature store lsh builds, x.next_signature = y implies that y
\* is in the store, y.prev_signature = x and x, y are lines of one file; and
\* y.prev_signature = x implies that x is in the store and x.next_signature = y.
C10_LinkageSymmetry ==
    pc # "lsh" =>
        \A x \in DOMAIN signatures :
            LET nx == signatures[x].next_signature
                pv == signatures[x].prev_signature
            IN  /\ nx # None =>
                      /\ nx \in DOMAIN signatures
                      /\ signatures[nx].prev_signature = x
                      /\ signatures[nx].file = signatures[x].file
                /\ pv # None =>
                      /\ pv \in DOMAIN signatures
                      /\ signatures[pv].next_signature = x
                      /\ signatures[pv].file = signatures[x].file

\* two linked signed lines with an unsigned line between them
C10_Witness ==
    /\ pc # "lsh"
    /\ \E x \in DOMAIN signatures :
          /\ signatures[x].next_signature # None
          /\ signatures[signatures[x].next_signature].line_number > signatures[x].line_number + 1

\* the vocabulary size V: the number of distinct shingles of the codebase
VocabularySize == Cardinality(ShingleUnion(file_mapping))

\* C11: every signature in the store lsh built has length N (the number of
\* hash functions) and every component is an integer in 0..V; the shingles of
\* a stored line are all in the vocabulary, and its components are in 0..V-1.
C11_SignatureBounds ==
    pc # "lsh" =>
        \A id \in DOMAIN signatures :
            /\ Len(signatures[id].signature) = NumHash
            /\ Len(signatures[id].signature) = Len(hash_functions)
            /\ \A i \in 1..NumHash :
                  /\ signatures[id].signature[i] \in 0..VocabularySize
                  /\ signatures[id].signature[i] \in 0..(VocabularySize - 1)

\* a store over a vocabulary of two shingles with a component at V-1
C11_Witness ==
    /\ pc # "lsh"
    /\ VocabularySize = 2
    /\ \E id \in DOMAIN signatures : \E i \in 1..NumHash :
          signatures[id].signature[i] = VocabularySize - 1

\* C12: calculate_jaccard_similarity(a, b) is the fraction of the positions at
\* which a and b are equal: it lies in [0, 1], is 1 when a = b, is the same
\* for (b, a), and is 0 when a and b differ in length.
C12_JaccardSimilarity ==
    pc = "done" =>
        LET a == args.sig1
            b == args.sig2
            swapped == calculate_jaccard_similarity(b, a)
        IN  /\ result[2] > 0
            /\ 0 <= result[1]
            /\ result[1] <= result[2]
            /\ Len(a) = Len(b) =>
                  result[1] * Len(a) = Cardinality({i \in 1..Len(a) : a[i] = b[i]}) * result[2]
            /\ a = b => result[1] = result[2]
            /\ result[1] * swapped[2] = swapped[1] * result[2]
            /\ Len(a) # Len(b) => result[1] = 0

\* two different signatures of one length that agree at some position
C12_Witness ==
    /\ pc = "done"
    /\ Len(args.sig1) = Len(args.sig2)
    /\ args.sig1 # args.sig2
    /\ result[1] > 0

\* C13: generate_shingle_set(L, k) returns no shingles when len(L) <= k; when
\* len(L) > k it returns the set of the substrings L[i:i+k], i in 0..len(L)-k,
\* each of length k and with the characters of L as they are: at most
\* len(L)-k+1 shingles, equal substrings counted once.
C13_ShingleInvariance ==
    pc = "done" =>
        LET L == args.code
            k == args.k
        IN  /\ Len(L) <= k => result = NoShingles
            /\ Len(L) > k =>
                  /\ \A i \in 0..(Len(L) - k) : SubSeq(L, i + 1, i + k) \in result
                  /\ \A s \in result :
                        /\ Len(s) = k
                        /\ \E i \in 0..(Len(L) - k) : s = SubSeq(L, i + 1, i + k)
                  /\ Cardinality(result) >= 1
                  /\ Cardinality(result) <= Len(L) - k + 1

\* a line with a repeated shingle: fewer shingles than positions
C13_Witness ==
    /\ pc = "done"
    /\ Len(args.code) > args.k
    /\ Cardinality(result) > 1
    /\ Cardinality(result) < Len(args.code) - args.k + 1

C19_NoPartialResult ==
    /\ results_file.written =>
          /\ pc = "written"
          /\ Len(results_file.content) = Len(res)
          /\ \A n \in 1..Len(res) : results_file.content[n] = ResultEntry(res[n])
    /\ pc = "raised" => ~results_file.written /\ results_file = NoResultsFile

\* the run found regions and failed while it read their code
C19_Witness == pc = "raised" /\ res # <<>> /\ ~results_file.written

\* C20: a run whose configuration lacks region_length, candidate_threshold or
\* line_threshold, or has region_length < 1 or a threshold outside [0, 1],
\* returns no region and writes no result: it ends in an error.
C20_InvalidConfigRejected ==
    LET c == args.json
        ConfigValid ==
            /\ DOMAIN c = ConfigKeys
            /\ c.region_length >= 1
            /\ \A k \in {"candidate_threshold", "line_threshold"} :
                  0 <= c[k][1] /\ c[k][1] <= c[k][2]
    IN  (pc # "config" /\ ~ConfigValid) =>
            /\ res = <<>>
            /\ ~results_file.written
            /\ pc # "written"

\* C15: a second run of main.py on the same files and the same configuration
\* draws the same hash permutations and builds the same signatures and the
\* same adjacency map in the same order, ends as the first run ended and
\* produces the same ordered list of regions and the same results.json.
C15_Reproducible ==
    (first_run # None /\ (pc = "written" \/ pc = "raised")) => first_run = RunOutcome

\* C16: a line whose leading non-whitespace is a triple quote toggles the
\* in-block flag, and every line from an opening triple-quote line up to and
\* including the next triple-quote line is absent from code_lines; a line that
\* does not start with a triple quote never toggles the flag, so a code line
\* with no triple-quote line before it is kept.
C16_DocstringBlocksDiscarded ==
    (pc = "done" /\ args.readable) =>
        LET lines == args.lines
            triple(i) == \/ startswith(lstrip(lines[i]), TripleDoubleQuote)
                         \/ startswith(lstrip(lines[i]), TripleSingleQuote)
            opened(i) == Cardinality({j \in 1..(i - 1) : triple(j)})
            in_block(i) ==
                \/ triple(i)
                \/ opened(i) % 2 = 1 /\ \E j \in (i + 1)..Len(lines) : triple(j)
            plain(i) ==
                /\ ~is_import(lines[i])
                /\ ~is_decorator(lines[i])
                /\ ~is_empty_line(lines[i])
                /\ ~startswith(lstrip(lines[i]), <<"#">>)
                /\ ~startswith(lstrip(lines[i]), <<"'">>)
                /\ ~startswith(lstrip(lines[i]), <<"\"">>)
        IN  /\ \A i \in 1..Len(lines) : in_block(i) => i \notin Range(result[2])
            /\ \A i \in 1..Len(lines) :
                  (plain(i) /\ opened(i) = 0) => i \in Range(result[2])

\* C17: for a readable file, code_lines and original_line_numbers have one
\* length; original_line_numbers[i] is the 1-based position of the line
\* code_lines[i] was taken from, and code_lines[i] is that line without its
\* leading whitespace; the numbers increase strictly; no kept line is blank or
\* starts with '#', 'import', 'from' or '@'.
C17_LineNumbersAndKeptLines ==
    (pc = "done" /\ args.readable) =>
        LET lines == args.lines
            code == result[1]
            line_mapping == result[2]
        IN  /\ Len(code) = Len(line_mapping)
            /\ \A i \in 1..Len(code) :
                  /\ line_mapping[i] \in 1..Len(lines)
                  /\ \E n \in 0..Len(lines[line_mapping[i]]) :
                        /\ code[i] = SubSeq(lines[line_mapping[i]], n + 1,
                                            Len(lines[line_mapping[i]]))
                        /\ \A m \in 1..n : lines[line_mapping[i]][m] \in Whitespace
                  /\ code[i] # <<>>
                  /\ code[i][1] \notin Whitespace
                  /\ ~startswith(code[i], <<"#">>)
                  /\ ~startswith(code[i], <<"i", "m", "p", "o", "r", "t">>)
                  /\ ~startswith(code[i], <<"f", "r", "o", "m">>)
                  /\ ~startswith(code[i], <<"@">>)
            /\ \A i \in 1..(Len(code) - 1) : line_mapping[i] < line_mapping[i + 1]

\* an indented line is kept after a line that was dropped
C17_Witness ==
    /\ pc = "done"
    /\ args.readable
    /\ \E i \in 1..Len(result[1]) :
          /\ result[2][i] > i
          /\ result[1][i] # args.lines[result[2][i]]


\* C18: read_dir returns without raising, and the mapping it returns has
\* exactly the files that could be read and have at least one code line, each
\* with its normalized code and line numbers; a file whose normalization
\* failed or kept no line is absent, wherever it stands among the others.
C18_FailedFilesSkipped ==
    pc # "call" =>
        LET paths == {<<i>> : i \in 1..Len(args.files)} \cup
                     UNION {{<<j, i>> : i \in 1..Len(args.sub_folders[j].files)} :
                                j \in 1..Len(args.sub_folders)}
            FileAt(p) == IF Len(p) = 1 THEN args.files[p[1]]
                         ELSE args.sub_folders[p[1]].files[p[2]]
            HasCode(p) == FileAt(p).readable /\ normalize_file_path(FileAt(p))[1] # <<>>
        IN  /\ pc = "done"
            /\ DOMAIN result = {p \in paths : HasCode(p)}
            /\ \A p \in DOMAIN result :
                  result[p] = [code |-> normalize_file_path(FileAt(p))[1],
                               line_mapping |-> normalize_file_path(FileAt(p))[2]]

\* a directory whose first file cannot be read and whose second has code, with
\* a sub-folder whose first file has no code line and whose second has code
C18_Witness ==
    /\ pc = "done"
    /\ Len(args.files) = 2
    /\ ~args.files[1].readable
    /\ Len(args.sub_folders) = 1
    /\ Len(args.sub_folders[1].files) = 2
    /\ args.sub_folders[1].files[1].readable
    /\ normalize_file_path(args.sub_folders[1].files[1])[1] = <<>>
    /\ DOMAIN result = {<<2>>, <<1, 2>>}


\* C21: in the adjacency map lsh returns, two distinct ids x, y are adjacent
\* exactly when some band of their signatures is identical (they share a
\* bucket) and the Jaccard similarity of the signatures is >= candidate_threshold.
C21_CandidateEdge ==
    (pc # "lsh" /\ pc # "banding" /\ pc # "graph") =>
        \A x, y \in DOMAIN signatures :
            x # y =>
                LET adjacent == AdjHasKey(adj_list, x) /\ y \in Range(AdjValues(adj_list, x))
                    share == \E b \in 1..NumBands :
                                split_vector(signatures[x].signature, NumBands)[b]
                                    = split_vector(signatures[y].signature, NumBands)[b]
                IN  adjacent <=>
                        (share /\ ~SimLess(Sim(signatures, x, y), config.candidate_threshold))

\* C22: in the adjacency map lsh returns, no id occurs twice in the neighbour
\* list of an id.
C22_NeighboursOnce ==
    (pc # "lsh" /\ pc # "banding" /\ pc # "graph") =>
        \A n \in 1..Len(adj_list) :
            \A i, j \in 1..Len(adj_list[n].values) :
                adj_list[n].values[i] = adj_list[n].values[j] => i = j


\* C23: once an expansion has returned a region, every pair of an id it
\* traversed in file 1 and an id it traversed in file 2 is in visited in both
\* orderings; no later expansion starts from such a pair in either ordering;
\* and visited never loses a pair.
C23_VisitedBlocksSeeds ==
    /\ [][visited \subseteq visited']_vars
    /\ [](\A n \in Successful :
            LET keys1 == Range(expansions[n].region.region_keys_file1)
                keys2 == Range(expansions[n].region.region_keys_file2)
            IN  /\ expansions[n].seed[1] \in keys1
                /\ expansions[n].seed[2] \in keys2
                /\ \A a \in keys1 : \A b \in keys2 :
                      /\ <<a, b>> \in visited
                      /\ <<b, a>> \in visited
                      /\ \A m \in (n + 1)..Len(expansions) :
                            expansions[m].seed # <<a, b>> /\ expansions[m].seed # <<b, a>>)

\* a run has returned in which an expansion traversed two lines of each file
\* and the adjacency map holds a pair of traversed ids other than its seed
C23_Witness ==
    /\ pc = "returned"
    /\ \E n \in Successful :
          LET keys1 == Range(expansions[n].region.region_keys_file1)
              keys2 == Range(expansions[n].region.region_keys_file2)
          IN  /\ Cardinality(keys1) >= 2
              /\ \E k \in 1..Len(adj_list) : \E v \in Range(adj_list[k].values) :
                    /\ <<adj_list[k].key, v>> # expansions[n].seed
                    /\ <<adj_list[k].key, v>> \in VisitedPairs(keys1, keys2)


\* C24: a region an expansion returned spans in each file from the original
\* line number of the first id traversed (the upward endpoint) to that of the
\* last (the downward endpoint), the original line of the seed lies between
\* them, and its length is max(end1 - start1 + 1, end2 - start2 + 1).
C24_RegionSpan ==
    \A n \in Successful :
        LET r == expansions[n].region
            k1 == r.region_keys_file1
            k2 == r.region_keys_file2
            seed == expansions[n].seed
            original(id) == file_mapping[id[1]].line_mapping[id[2] + 1]
        IN  /\ r.file1_start = original(k1[1])
            /\ r.file1_end = original(k1[Len(k1)])
            /\ r.file2_start = original(k2[1])
            /\ r.file2_end = original(k2[Len(k2)])
            /\ r.file1_start <= original(seed[1])
            /\ original(seed[1]) <= r.file1_end
            /\ r.file2_start <= original(seed[2])
            /\ original(seed[2]) <= r.file2_end
            /\ r.total_lines = Max(r.file1_end - r.file1_start + 1,
                                   r.file2_end - r.file2_start + 1)
            /\ r.total_lines >= Len(k1)

\* a region of two traversed lines per file that is longer in file 2 than in
\* file 1 because a line between them was dropped from file 2
C24_Witness ==
    \E n \in Successful :
        LET r == expansions[n].region
        IN  /\ Len(r.region_keys_file1) = 2
            /\ r.file1_end - r.file1_start + 1 = 2
            /\ r.file2_end - r.file2_start + 1 = 3
            /\ r.total_lines = 3


\* C25: the hash functions being permutations of 0..V-1, component i of the
\* signature create_signature returns is the smallest value permutation i
\* gives to the vocabulary index of a shingle of the line that is in the
\* vocabulary; shingles outside the vocabulary do not count, and when no
\* shingle of the line is in the vocabulary the signature is [V, ..., V]; the
\* signature has one component per hash function.
C25_MinHash ==
    pc = "done" =>
        LET V == Cardinality(DOMAIN args.shingle_index_map)
            known == args.shingle_set \cap DOMAIN args.shingle_index_map
            value(i, s) == args.hash_functions[i][args.shingle_index_map[s] + 1]
        IN  /\ \A i \in 1..NumHash :
                  {args.hash_functions[i][n] : n \in 1..Len(args.hash_functions[i])} = 0..(V - 1)
            /\ Len(result) = NumHash
            /\ \A i \in 1..NumHash :
                  IF known = {} THEN result[i] = V
                  ELSE /\ \E s \in known : result[i] = value(i, s)
                       /\ \A s \in known : result[i] <= value(i, s)

\* a line with a shingle outside the vocabulary and two inside, the shingle
\* of the smaller index having the larger hash
C25_Witness ==
    /\ pc = "done"
    /\ args.shingle_set = {1, 2, MaxShingleId}
    /\ Cardinality(DOMAIN args.shingle_index_map) = MaxVocabulary
    /\ args.hash_functions[1][1] > args.hash_functions[1][2]
    /\ result[1] = args.hash_functions[1][2]


\* C26: the signature store lsh builds holds the id of a normalized line
\* exactly when the line is longer than k; next_signature of a stored line is
\* the nearest stored line after it in its file, or None when it is the last,
\* and prev_signature the nearest stored line before it, or None when it is
\* the first.
C26_StoreAndLinks ==
    pc # "lsh" =>
        LET signed(f) == {i \in 0..(Len(file_mapping[f].code) - 1) :
                             Len(file_mapping[f].code[i + 1]) > ShingleK}
            after(f, i) == {j \in signed(f) : j > i}
            before(f, i) == {j \in signed(f) : j < i}
        IN  /\ DOMAIN signatures = UNION {{<<f, i>> : i \in signed(f)} : f \in FileKeys}
            /\ \A x \in DOMAIN signatures :
                  /\ signatures[x].next_signature =
                        IF after(x[1], x[2]) = {} THEN None
                        ELSE <<x[1], Min(after(x[1], x[2]))>>
                  /\ signatures[x].prev_signature =
                        IF before(x[1], x[2]) = {} THEN None
                        ELSE <<x[1], -Min({-j : j \in before(x[1], x[2])})>>

\* file 1 has an unsigned line between two signed lines, which are linked
C26_Witness ==
    /\ pc # "lsh"
    /\ file_mapping[1].code = <<LineP, LineS, LineQ>>
    /\ DOMAIN signatures \cap {<<1, 0>>, <<1, 1>>, <<1, 2>>} = {<<1, 0>>, <<1, 2>>}
    /\ signatures[<<1, 0>>].next_signature = <<1, 2>>
    /\ signatures[<<1, 2>>].prev_signature = <<1, 0>>


\* C27: an expansion that returned a region traversed as many ids in file 1
\* as in file 2, no id twice; the seed's two ids stand at one position of the
\* two lists; the ids at every position have similarity >= line_threshold;
\* and the walk moved from one position to the next only over a link in both
\* files, so a file without a prev (next) link ends the growth for both.
C27_Lockstep ==
    \A n \in Successful :
        LET k1 == expansions[n].region.region_keys_file1
            k2 == expansions[n].region.region_keys_file2
        IN  /\ Len(k1) = Len(k2)
            /\ Cardinality(Range(k1)) = Len(k1)
            /\ Cardinality(Range(k2)) = Len(k2)
            /\ \E j \in 1..Len(k1) :
                  k1[j] = expansions[n].seed[1] /\ k2[j] = expansions[n].seed[2]
            /\ \A j \in 1..Len(k1) :
                  ~SimLess(Sim(signatures, k1[j], k2[j]), config.line_threshold)
            /\ \A j \in 2..Len(k1) :
                  /\ signatures[k1[j]].prev_signature = k1[j - 1]
                  /\ signatures[k2[j]].prev_signature = k2[j - 1]
                  /\ signatures[k1[j - 1]].next_signature = k1[j]
                  /\ signatures[k2[j - 1]].next_signature = k2[j]

\* an expansion walked up a step and stopped where file 2 has no prev link
\* while file 1 has one, and walked down no step because file 1 has no next
\* link while file 2 has one
C27_Witness ==
    \E n \in Successful :
        LET k1 == expansions[n].region.region_keys_file1
            k2 == expansions[n].region.region_keys_file2
        IN  /\ Len(k1) = 2
            /\ <<k1[2], k2[2]>> = expansions[n].seed
            /\ signatures[k1[1]].prev_signature # None
            /\ signatures[k2[1]].prev_signature = None
            /\ signatures[k1[2]].next_signature = None
            /\ signatures[k2[2]].next_signature # None


\* C28: in every expansion the upward walk, the collection walk back to the
\* seed and the downward walk each take at most as many steps as the shorter
\* of the two files has signed lines, and find_similiar_regions, having gone
\* through every adjacency entry, ends by returning: it does not raise.
C28_ExpansionTerminates ==
    /\ \A n \in Successful :
          LET k1 == expansions[n].region.region_keys_file1
              k2 == expansions[n].region.region_keys_file2
              seed == expansions[n].seed
              j == CHOOSE i \in 1..Len(k1) : <<k1[i], k2[i]>> = seed
              signed(f) == Cardinality({id \in DOMAIN signatures : id[1] = f})
              shorter == IF signed(seed[1][1]) <= signed(seed[2][1])
                         THEN signed(seed[1][1]) ELSE signed(seed[2][1])
          IN  /\ j - 1 <= shorter
              /\ j <= shorter
              /\ Len(k1) - j <= shorter
    /\ (ki > Len(adj_list) /\ pc \notin {"lsh", "banding", "graph", "regions"})
          => (pc \in {"filter", "returned", "written"} \/ res # <<>>)

\* C29: whatever permutations were drawn, two signed lines of different files
\* with the same normalized text have the same signature, similarity 1 and
\* the same slice in every band; they are adjacent in the map lsh returns
\* when candidate_threshold < 1, and expand_similiarity_region does not
\* return None for them as the seed (line_threshold <= 1).
C29_IdenticalLines ==
    (pc # "lsh" /\ pc # "banding" /\ pc # "graph") =>
        \A x, y \in DOMAIN signatures :
            (x[1] # y[1] /\ file_mapping[x[1]].code[x[2] + 1] = file_mapping[y[1]].code[y[2] + 1])
                => /\ signatures[x].signature = signatures[y].signature
                   /\ Sim(signatures, x, y)[1] = Sim(signatures, x, y)[2]
                   /\ \A b \in 1..NumBands :
                         split_vector(signatures[x].signature, NumBands)[b]
                             = split_vector(signatures[y].signature, NumBands)[b]
                   /\ SimLess(config.candidate_threshold, <<1, 1>>)
                         => /\ AdjHasKey(adj_list, x)
                            /\ y \in Range(AdjValues(adj_list, x))
                   /\ ~SimLess(<<1, 1>>, config.line_threshold)
                         => expand_similiarity_region(signatures, x, y, config.line_threshold)
                               # None

\* lsh has returned an edge between the second line of file 1 and the first
\* line of file 2, which have the same text; the line threshold is 1
C29_Witness ==
    /\ pc = "regions"
    /\ config.candidate_threshold = <<0, ThresholdDen>>
    /\ config.line_threshold = <<ThresholdDen, ThresholdDen>>
    /\ Len(file_mapping[1].code) >= 2
    /\ file_mapping[1].code[2] = LineQ
    /\ file_mapping[2].code[1] = LineQ
    /\ AdjHasKey(adj_list, <<1, 1>>)
    /\ <<2, 0>> \in Range(AdjValues(adj_list, <<1, 1>>))
    /\ hash_functions[1] # hash_functions[2]

\* C30: a request is answered with 429 exactly when RATE_LIMIT_REQUESTS or
\* more requests of its client ip were let through less than
\* RATE_LIMIT_WINDOW seconds before it; so no RATE_LIMIT_WINDOW seconds hold
\* more than RATE_LIMIT_REQUESTS requests of one client ip that were let
\* through; and request_counts holds for a client ip the times of the requests
\* let through that were inside the window at its last request, and no time
\* of a request answered with 429.
C30_RateLimit ==
    pc = "serving" =>
        LET passed(ip) == {j \in 1..Len(responses) :
                              responses[j].client_ip = ip /\ ~responses[j].limited}
            last(ip) == responses[CHOOSE j \in 1..Len(responses) :
                                     /\ responses[j].client_ip = ip
                                     /\ \A m \in (j + 1)..Len(responses) :
                                           responses[m].client_ip # ip].time
            kept(ip) == SelectSeq(responses,
                                  LAMBDA r : /\ r.client_ip = ip
                                             /\ ~r.limited
                                             /\ last(ip) - r.time < RATE_LIMIT_WINDOW)
        IN  /\ \A k \in 1..Len(responses) :
                  responses[k].limited <=>
                      Cardinality({j \in passed(responses[k].client_ip) :
                                      /\ j < k
                                      /\ responses[k].time - responses[j].time
                                            < RATE_LIMIT_WINDOW}) >= RATE_LIMIT_REQUESTS
            /\ \A ip \in ClientIps : \A s \in 0..MaxTime :
                  Cardinality({j \in passed(ip) :
                                  /\ s <= responses[j].time
                                  /\ responses[j].time < s + RATE_LIMIT_WINDOW})
                      <= RATE_LIMIT_REQUESTS
            /\ \A ip \in ClientIps :
                  IF \E j \in 1..Len(responses) : responses[j].client_ip = ip
                  THEN request_counts[ip] = [n \in 1..Len(kept(ip)) |-> kept(ip)[n].time]
                  ELSE request_counts[ip] = <<>>

\* a client ip was let through RATE_LIMIT_REQUESTS times, then answered with
\* 429, and let through again once the window had passed
C30_Witness ==
    /\ pc = "serving"
    /\ Len(responses) = RATE_LIMIT_REQUESTS + 2
    /\ \A k \in 1..Len(responses) : responses[k].client_ip = "a"
    /\ \A k \in 1..RATE_LIMIT_REQUESTS : ~responses[k].limited
    /\ responses[RATE_LIMIT_REQUESTS + 1].limited
    /\ ~responses[RATE_LIMIT_REQUESTS + 2].limited
    /\ Len(request_counts["a"]) = 1

====
